---- MODULE Spec2Model ----
(***************************************************************************)
(* VF-Digital: the fingerprint store (utils/database.py, VideoDatabase),   *)
(* its sliding-window search, and the upload handler of app.py that feeds  *)
(* it.                                                                     *)
(*                                                                         *)
(* Numbers.  Fingerprint components are reals in [-pi, pi]; the model      *)
(* keeps them as integers counting tenths, so a squared difference counts  *)
(* hundredths.  A score, a threshold and a time are exact rationals        *)
(* <<numerator, denominator>>; float("inf") is <<1, 0>>.  Python's None is *)
(* the empty tuple <<>> and a present value v is <<v>>.                    *)
(***************************************************************************)
EXTENDS Integers, Sequences, FiniteSets, TLC

VARIABLES
    metadata,   \* self.metadata: the in-memory dict, in insertion order
    fp_files,   \* the fingerprints folder: file id -> [state, data]
    meta_file,  \* metadata.json on disk: [state, recs]
    up,         \* the upload requests (upload_video -> add_video), one frame each
    srch,       \* the search request (VideoDatabase.search), its locals
    evaluated,  \* history: the windows search has scored, in order
    alive,      \* the server process holds a constructed VideoDatabase
    observed,   \* what the last VideoDatabase.__init__ read from metadata.json
    removed,    \* history: the file ids a caller has asked the store to remove
    smp         \* one call of preprocess_video: the capture and the loop's locals

vars == <<metadata, fp_files, meta_file, up, srch, evaluated, alive, observed,
          removed, smp>>

-----------------------------------------------------------------------------
(* Bounds of the model.                                                    *)

MaxVideos == 2      \* videos in a catalogue drawn for a search
MaxFrames == 4      \* fingerprints stored in such a catalogue, all videos together
MaxK == 2           \* length of a query
MaxUploads == 2     \* upload requests in one behaviour
MaxSrcFrames == 6   \* frames a capture delivers before a read or grab fails

-----------------------------------------------------------------------------
(* Fingerprints: video_utils.extract_fingerprint.                          *)

N_ROWS == 2
M_COLS == 4
FPDim == N_ROWS * M_COLS

\* A frame stands for the fingerprint extract_fingerprint gives it.  "flat" is
\* a uniform frame: every block has denominator == 0, so every centroid is 0.0.
\* "faint" differs from it by 0.1 in one block, "strong" by 1.6 and 0.8 in two.
FrameKinds == {"flat", "faint", "strong"}

FrameFingerprint(frame) ==
    CASE frame = "flat"   -> [c \in 1..FPDim |-> 0]
      [] frame = "faint"  -> [c \in 1..FPDim |-> IF c = 1 THEN 1 ELSE 0]
      [] frame = "strong" -> [c \in 1..FPDim |-> IF c = 1 THEN 16 ELSE IF c = 2 THEN 8 ELSE 0]

\* One fingerprint per frame, in order (an empty stack gives an empty array).
ExtractFingerprint(frames) == [k \in 1..Len(frames) |-> FrameFingerprint(frames[k])]

Fingerprints == {FrameFingerprint(f) : f \in FrameKinds}

-----------------------------------------------------------------------------
(* Rationals.                                                              *)

Less(a, b) == a[1] * b[2] < b[1] * a[2]
SameValue(a, b) == a[1] * b[2] = b[1] * a[2]
Inf == <<1, 0>>

-----------------------------------------------------------------------------
(* The score of one window: search, lines 90-94.                           *)

RECURSIVE SumTo(_, _)
SumTo(f, n) == IF n = 0 THEN 0 ELSE f[n] + SumTo(f, n - 1)

\* sum((a - b)**2) over the components of one fingerprint, in hundredths
SqDiff(a, b) == SumTo([c \in 1..FPDim |-> (a[c] - b[c]) * (a[c] - b[c])], FPDim)

\* window = db_fps[i : i + K]; np.mean((window - query)**2): the mean is over
\* all K * 8 components.  i is the 0-based offset.
WindowScore(db_fps, i, query) ==
    LET K == Len(query)
    IN  <<SumTo([k \in 1..K |-> SqDiff(db_fps[i + k], query[k])], K), 100 * K * FPDim>>

CutOff == <<1, 100>>             \* 0.01, the "perfect" match of lines 105 and 109
DefaultThreshold == <<4, 10>>    \* threshold=0.4

\* mutant: range(len(db_fps) - K)
WindowOffsets_Short(n, K) == 0..(n - K - 1)

\* range(len(db_fps) - K + 1)
WindowOffsets(n, K) == 0..(n - K)

\* mutant: the frame index reported as seconds
StartTime_Frames(i) == <<i, 1>>

\* start_time: i / 10.0
StartTime(i) == <<i, 10>>

\* duration_sec: len(fps) / 10.0
DurationSec(n) == <<n, 10>>

-----------------------------------------------------------------------------
(* Catalogue records and files.                                            *)

\* add_video, lines 57-62: the record stored under file_id
Record(file_id, video_name, video_path, fps) ==
    [id |-> file_id, name |-> video_name, original_path |-> video_path,
     frames |-> Len(fps), duration_sec |-> DurationSec(Len(fps))]

CompleteFile(fps) == [state |-> "complete", data |-> fps]
PartialFile == [state |-> "partial", data |-> <<>>]

\* os.path.exists / a successful np.load of <file_id>.npy
Readable(file_id) == file_id \in DOMAIN fp_files /\ fp_files[file_id].state = "complete"

-----------------------------------------------------------------------------
(* video_utils.preprocess_video, lines 11-59.                              *)

\* target_fps, the default of line 11; no caller passes another
TargetFps == 10

\* cap.get(cv2.CAP_PROP_FPS) of the sources drawn: below, at and above
\* target_fps; with these, step = original_fps / target_fps and its
\* multiples are exact in binary floating point
SourceFps == {5, 10, 25}

\* no call of preprocess_video is being followed
NoSampler ==
    [pc |-> "none", opened |-> FALSE, original_fps |-> 0, readable |-> 0,
     position |-> 0, current_src_frame |-> 0, target_frame_count |-> 0,
     processed_frames |-> <<>>, result |-> <<>>]

\* mutant: None for a source that gave no frame
NpArray_NoneIfEmpty(processed_frames) ==
    IF Len(processed_frames) = 0 THEN <<>> ELSE <<processed_frames>>

\* line 59: np.array(processed_frames), an array also when the list is empty
NpArray(processed_frames) == <<processed_frames>>

\* lines 12-30: the capture is opened; None if it is not, else the locals
PreprocessOpen ==
    /\ smp.pc = "call"
    /\ smp' = IF ~smp.opened
              THEN [smp EXCEPT !.pc = "done", !.result = <<>>]
              ELSE [smp EXCEPT !.pc = "loop"]
    /\ UNCHANGED <<metadata, fp_files, meta_file, up, srch, evaluated, alive,
                   observed, removed>>

\* line 33, with step = original_fps / target_fps (line 23):
\* current_src_frame >= target_frame_count * step
ShouldDecode(s) ==
    s.current_src_frame * TargetFps >= s.target_frame_count * s.original_fps

\* cap.read() and cap.grab() deliver the frame at the capture's position and
\* move past it, or fail
Delivers(s) == s.position < s.readable

\* lines 57-59: the loop was left
Break(s) == [s EXCEPT !.pc = "done", !.result = NpArray(s.processed_frames)]

\* lines 33-49 and 55, a pass that decodes: the frame read, made gray and
\* resized, is appended (a frame is written as its index in the source)
CapRead ==
    /\ smp.pc = "loop"
    /\ ShouldDecode(smp)
    /\ smp' = IF ~Delivers(smp)
              THEN Break(smp)
              ELSE [smp EXCEPT !.processed_frames = Append(@, smp.position),
                               !.position = @ + 1,
                               !.target_frame_count = @ + 1,
                               !.current_src_frame = @ + 1]
    /\ UNCHANGED <<metadata, fp_files, meta_file, up, srch, evaluated, alive,
                   observed, removed>>

\* lines 33, 50-55, a pass that skips: the frame is grabbed and not decoded
CapGrab ==
    /\ smp.pc = "loop"
    /\ ~ShouldDecode(smp)
    /\ smp' = IF ~Delivers(smp)
              THEN Break(smp)
              ELSE [smp EXCEPT !.position = @ + 1, !.current_src_frame = @ + 1]
    /\ UNCHANGED <<metadata, fp_files, meta_file, up, srch, evaluated, alive,
                   observed, removed>>

-----------------------------------------------------------------------------
(* VideoDatabase.search, lines 67-118.                                     *)

IdleSearch ==
    [pc |-> "idle", query |-> <<>>, threshold |-> DefaultThreshold, it_used |-> 0,
     pos |-> 0, info |-> <<>>, i |-> 0,
     lowest_score |-> Inf, best_match |-> <<>>, result |-> <<>>]

\* mutant: if score <= lowest_score
Better_OrEqual(score, lowest_score) == ~Less(lowest_score, score)

\* line 96: if score < lowest_score
Better(score, lowest_score) == Less(score, lowest_score)

\* line 105: if score < 0.01: break (inside the branch of line 96)
StopVideo(score, lowest_score) == Better(score, lowest_score) /\ Less(score, CutOff)

\* mutant: the outer break left out
StopScan_Never(lowest_score) == FALSE

\* line 109: if lowest_score < 0.01: break
StopScan(lowest_score) == Less(lowest_score, CutOff)

\* mutant: best_match["score"] <= threshold
Decide_AtMost(best_match, threshold) ==
    IF best_match # <<>> /\ ~Less(threshold, best_match[1].score) THEN best_match ELSE <<>>

\* lines 115-118: if best_match and best_match["score"] < threshold
Decide(best_match, threshold) ==
    IF best_match # <<>> /\ Less(best_match[1].score, threshold) THEN best_match ELSE <<>>

\* db_fps = np.load(file_path, mmap_mode="r"): a view of the file, read when a
\* window is taken from it
MemoryMap(file_id) == fp_files[file_id].data

\* lines 112-118: the loop is over, search returns
Return(s) ==
    [s EXCEPT !.pc = "done", !.info = <<>>, !.i = 0,
              !.result = Decide(s.best_match, s.threshold)]

\* lines 78-85, one pass of the outer loop up to its inner loop: the
\* iterator's next item, np.load of its file, which raises when the file is
\* not there or not a complete array, and the `continue` for a video shorter
\* than the query; past the last item, the loop is over
Advance(s) ==
    IF s.pos < Len(metadata)
    THEN LET info == metadata[s.pos + 1]
         IN  IF ~Readable(info.id)
             THEN \* line 82 is in no try block: np.load raises out of search
                  [s EXCEPT !.pc = "error", !.pos = @ + 1, !.info = <<>>, !.i = 0]
             ELSE IF Len(MemoryMap(info.id)) < Len(s.query)
             THEN [s EXCEPT !.pc = "iter", !.pos = @ + 1, !.info = <<>>, !.i = 0]
             ELSE [s EXCEPT !.pc = "window", !.pos = @ + 1, !.info = <<info>>, !.i = 0]
    ELSE Return(s)

\* lines 69-85: the locals, the iterator over self.metadata.items(), which
\* remembers the dict's size, and the first pass up to its inner loop
SearchStart(q, th) ==
    /\ alive
    /\ srch.pc = "idle"
    /\ srch' = Advance([IdleSearch EXCEPT !.query = q, !.threshold = th,
                                          !.it_used = Len(metadata)])
    /\ UNCHANGED <<metadata, fp_files, meta_file, up, evaluated, observed, alive,
                 removed, smp>>

\* lines 78-85, from the second pass on
SearchNextVideo ==
    /\ srch.pc = "iter"
    /\ srch.it_used = Len(metadata)
    /\ srch' = Advance(srch)
    /\ UNCHANGED <<metadata, fp_files, meta_file, up, evaluated, observed, alive,
                 removed, smp>>

\* lines 89-118: one pass of the inner loop, with the breaks that follow it
SearchWindow ==
    /\ srch.pc = "window"
    /\ \E score \in {WindowScore(MemoryMap(srch.info[1].id), srch.i, srch.query)} :
       \* (bound once: the score of this window)
       LET K == Len(srch.query)
           db_fps == MemoryMap(srch.info[1].id)
           better == Better(score, srch.lowest_score)
           scored == [srch EXCEPT
                        !.lowest_score = IF better THEN score ELSE @,
                        !.best_match =
                            IF better
                            THEN <<[video |-> srch.info[1].name,
                                    start_time |-> StartTime(srch.i), score |-> score]>>
                            ELSE @]
           last == srch.i + 1 \notin WindowOffsets(Len(db_fps), K)
       IN  /\ evaluated' = Append(evaluated, [pos |-> srch.pos, offset |-> srch.i,
                                              score |-> score])
           /\ srch' = IF StopVideo(score, srch.lowest_score) \/ last
                      THEN (IF StopScan(scored.lowest_score)
                            THEN Return(scored)
                            ELSE [scored EXCEPT !.pc = "iter", !.info = <<>>, !.i = 0])
                      ELSE [scored EXCEPT !.i = @ + 1]
    /\ UNCHANGED <<metadata, fp_files, meta_file, up, observed, alive,
                 removed, smp>>

-----------------------------------------------------------------------------
(* A search over a stable catalogue.                                       *)

Thresholds == {CutOff, DefaultThreshold}

Queries == UNION {[1..K -> Fingerprints] : K \in 1..MaxK}

ClipNames == <<"Clip A", "Clip B", "Clip C", "Clip D">>

\* the ways to cut n stored fingerprints into at most MaxVideos videos, none empty
Cuts(n) ==
    {l \in UNION {[1..m -> 1..n] : m \in 0..MaxVideos} : SumTo(l, Len(l)) = n}

NewUpload ==
    [pc |-> "new", path |-> "", name |-> "", fps |-> <<>>, added |-> FALSE,
     response |-> <<>>]

\* A store that earlier ingests filled: every record has its file.
InitSearch ==
    \E n \in 0..MaxFrames :
      \E flat \in [1..n -> Fingerprints], lens \in Cuts(n) :
        LET first(j) == SumTo(lens, j - 1)
            data(j) == [k \in 1..lens[j] |-> flat[first(j) + k]]
        IN  /\ metadata = [j \in 1..Len(lens) |->
                             Record(j, ClipNames[j], "movies/clip.mp4", data(j))]
            /\ fp_files = [j \in 1..Len(lens) |-> CompleteFile(data(j))]
            /\ meta_file = IF Len(lens) = 0
                           THEN [state |-> "absent", recs |-> <<>>]
                           ELSE [state |-> "complete", recs |-> metadata]
            /\ up = [t \in 1..MaxUploads |-> NewUpload]
            /\ srch = IdleSearch
            /\ evaluated = <<>>
            /\ alive = TRUE
            /\ observed = <<IF Len(lens) = 0 THEN "fresh" ELSE "loaded">>
            /\ removed = {}
            /\ smp = NoSampler

NextSearch ==
    \/ \E q \in Queries, th \in Thresholds : SearchStart(q, th)
    \/ SearchNextVideo
    \/ SearchWindow

SpecSearch == InitSearch /\ [][NextSearch]_vars

-----------------------------------------------------------------------------
(* A search over a catalogue whose fingerprint files can be lost.          *)

\* <file_id>.npy is deleted, or damaged, by something other than this program
\* (nothing in the program removes a file of the fingerprints folder); a view
\* np.load has already mapped keeps its pages
LoseFile(file_id) ==
    /\ Readable(file_id)
    /\ fp_files' = [fp_files EXCEPT ![file_id].state = "lost"]
    /\ UNCHANGED <<metadata, meta_file, up, srch, evaluated, alive, observed,
                   removed, smp>>

NextMissing ==
    \/ \E file_id \in 1..MaxVideos : LoseFile(file_id)
    \/ \E q \in Queries, th \in Thresholds : SearchStart(q, th)
    \/ SearchNextVideo
    \/ SearchWindow

SpecMissing == InitSearch /\ [][NextMissing]_vars

-----------------------------------------------------------------------------
(* Ingest: app.upload_video calling VideoDatabase.add_video.               *)

Uploads == 1..MaxUploads

\* The uploads the model draws from, by what video_utils.preprocess_video
\* makes of each: None when the capture does not open, an empty array when
\* the first read fails, else the sampled frames.
Paths == {"missing.mp4", "empty.mp4", "gray.mp4", "edge.mp4"}

PreprocessVideo(video_path) ==
    CASE video_path = "missing.mp4" -> <<>>
      [] video_path = "empty.mp4"   -> << <<>> >>
      [] video_path = "gray.mp4"    -> << <<"flat", "flat">> >>
      [] video_path = "edge.mp4"    -> << <<"faint">> >>

\* file_id = str(uuid.uuid4()): fresh for every call
Uuid4(t) == t

\* mutant: if frames is None
Rejected_NoneOnly(frames) == frames = <<>>

\* add_video, line 40: if frames is None or len(frames) == 0
Rejected(frames) == frames = <<>> \/ Len(frames[1]) = 0

\* upload_video lines 194-198 and add_video lines 31-46: the handler enters
\* add_video under the file's name (the form names nothing), which samples the
\* upload and returns on a failed extraction
AddVideoProcess(t, video_path) ==
    /\ alive
    /\ up[t].pc = "new"
    /\ LET frames == PreprocessVideo(video_path)
       IN  up' = [up EXCEPT ![t] =
                    IF Rejected(frames)
                    THEN [@ EXCEPT !.pc = "returned", !.path = video_path,
                                   !.name = video_path]
                    ELSE [@ EXCEPT !.pc = "save", !.path = video_path,
                                   !.name = video_path,
                                   !.fps = ExtractFingerprint(frames[1])]]
    /\ UNCHANGED <<metadata, fp_files, meta_file, srch, evaluated, alive, observed,
                 removed, smp>>

\* mutant: the record written before the file is saved
NpSaveBegin_Skipped(t) ==
    /\ up[t].pc = "save"
    /\ up' = [up EXCEPT ![t].pc = "update"]
    /\ UNCHANGED <<metadata, fp_files, meta_file, srch, evaluated, alive, observed,
                 removed, smp>>

\* line 54, np.save: the file is created, then filled
NpSaveBegin(t) ==
    /\ up[t].pc = "save"
    /\ fp_files' = (Uuid4(t) :> PartialFile) @@ fp_files
    /\ up' = [up EXCEPT ![t].pc = "saving"]
    /\ UNCHANGED <<metadata, meta_file, srch, evaluated, alive, observed,
                 removed, smp>>

NpSaveEnd(t) ==
    /\ up[t].pc = "saving"
    /\ fp_files' = [fp_files EXCEPT ![Uuid4(t)] = CompleteFile(up[t].fps)]
    /\ up' = [up EXCEPT ![t].pc = "update"]
    /\ UNCHANGED <<metadata, meta_file, srch, evaluated, alive, observed,
                 removed, smp>>

\* mutant: one record per path, a second ingest of a path taking the place of
\* the first
MetaUpdate_ByPath(t) ==
    /\ up[t].pc = "update"
    /\ metadata' = Append(SelectSeq(metadata, LAMBDA r : r.original_path # up[t].path),
                          Record(Uuid4(t), up[t].name, up[t].path, up[t].fps))
    /\ up' = [up EXCEPT ![t].pc = "persist", ![t].added = TRUE]
    /\ UNCHANGED <<fp_files, meta_file, srch, evaluated, alive, observed,
                 removed, smp>>

\* lines 57-62: a new key goes to the end of the dict
MetaUpdate(t) ==
    /\ up[t].pc = "update"
    /\ metadata' = Append(metadata, Record(Uuid4(t), up[t].name, up[t].path, up[t].fps))
    /\ up' = [up EXCEPT ![t].pc = "persist", ![t].added = TRUE]
    /\ UNCHANGED <<fp_files, meta_file, srch, evaluated, alive, observed,
                 removed, smp>>

\* _save_metadata, line 121: open(self.meta_path, "w") truncates the file
SaveOpen(t) ==
    /\ up[t].pc = "persist"
    /\ meta_file' = [state |-> "partial", recs |-> <<>>]
    /\ up' = [up EXCEPT ![t].pc = "dump"]
    /\ UNCHANGED <<metadata, fp_files, srch, evaluated, alive, observed,
                 removed, smp>>

\* line 121 when the open fails (OSError): add_video raises
SaveOpenFail(t) ==
    /\ up[t].pc = "persist"
    /\ up' = [up EXCEPT ![t].pc = "raised"]
    /\ UNCHANGED <<metadata, fp_files, meta_file, srch, evaluated, alive, observed,
                 removed, smp>>

\* line 122, json.dump and the close: the dict as it is now; add_video returns
SaveDump(t) ==
    /\ up[t].pc = "dump"
    /\ meta_file' = [state |-> "complete", recs |-> metadata]
    /\ up' = [up EXCEPT ![t].pc = "returned"]
    /\ UNCHANGED <<metadata, fp_files, srch, evaluated, alive, observed,
                 removed, smp>>

\* upload_video, lines 200-213: add_video returned (None, always)
UploadSuccess(t) ==
    /\ up[t].pc = "returned"
    /\ up' = [up EXCEPT ![t].pc = "responded",
                        ![t].response = <<[success |-> TRUE, status |-> 200]>>]
    /\ UNCHANGED <<metadata, fp_files, meta_file, srch, evaluated, alive, observed,
                 removed, smp>>

\* upload_video, lines 215-229: add_video raised
UploadFailure(t) ==
    /\ up[t].pc = "raised"
    /\ up' = [up EXCEPT ![t].pc = "responded",
                        ![t].response = <<[success |-> FALSE, status |-> 500]>>]
    /\ UNCHANGED <<metadata, fp_files, meta_file, srch, evaluated, alive, observed,
                 removed, smp>>

\* line 78 when the dict changed size since the iterator was made:
\* RuntimeError("dictionary changed size during iteration") leaves search
SearchIterError ==
    /\ srch.pc = "iter"
    /\ srch.it_used # Len(metadata)
    /\ srch' = [srch EXCEPT !.pc = "error"]
    /\ UNCHANGED <<metadata, fp_files, meta_file, up, evaluated, alive, observed,
                 removed, smp>>

-----------------------------------------------------------------------------
(* The process: its death, and VideoDatabase.__init__.                     *)

InFlight(pc) == pc \notin {"new", "responded", "killed"}

\* The server process dies: its memory and its requests go, the files stay.
Crash ==
    /\ alive
    /\ alive' = FALSE
    /\ metadata' = <<>>
    /\ up' = [t \in Uploads |-> IF InFlight(up[t].pc) THEN [up[t] EXCEPT !.pc = "killed"]
                                ELSE up[t]]
    /\ srch' = IF srch.pc \in {"idle", "done", "error"} THEN srch
               ELSE [srch EXCEPT !.pc = "killed"]
    /\ UNCHANGED <<fp_files, meta_file, evaluated, observed, removed, smp>>

\* __init__, lines 23-27: what json.load makes of metadata.json; a truncated
\* file does not parse
LoadMetadata(file) ==
    CASE file.state = "absent"   -> [read |-> "fresh", metadata |-> <<>>]
      [] file.state = "complete" -> [read |-> "loaded", metadata |-> file.recs]
      [] file.state = "partial"  -> [read |-> "corrupt", metadata |-> <<>>]

\* app.py line 28, db = VideoDatabase(), when the server starts again
Restart ==
    /\ ~alive
    /\ observed # <<"corrupt">>
    /\ LET got == LoadMetadata(meta_file)
       IN  /\ observed' = <<got.read>>
           /\ alive' = (got.read # "corrupt")
           /\ metadata' = got.metadata
    /\ UNCHANGED <<fp_files, meta_file, up, srch, evaluated, removed, smp>>

-----------------------------------------------------------------------------
(* The server: uploads and a search as concurrent requests on one store.   *)

Init ==
    /\ metadata = <<>>
    /\ fp_files = <<>>
    /\ meta_file = [state |-> "absent", recs |-> <<>>]
    /\ up = [t \in Uploads |-> NewUpload]
    /\ srch = IdleSearch
    /\ evaluated = <<>>
    /\ alive = TRUE
    /\ observed = <<"fresh">>
    /\ removed = {}
    /\ smp = NoSampler

UploadNext ==
    \/ \E t \in Uploads, video_path \in Paths : AddVideoProcess(t, video_path)
    \/ \E t \in Uploads : NpSaveBegin(t)
    \/ \E t \in Uploads : NpSaveEnd(t)
    \/ \E t \in Uploads : MetaUpdate(t)
    \/ \E t \in Uploads : SaveOpen(t)
    \/ \E t \in Uploads : SaveOpenFail(t)
    \/ \E t \in Uploads : SaveDump(t)
    \/ \E t \in Uploads : UploadSuccess(t)
    \/ \E t \in Uploads : UploadFailure(t)

\* The store under uploads, crashes and restarts.
Next ==
    \/ UploadNext
    \/ Crash
    \/ Restart

Spec == Init /\ [][Next]_vars

-----------------------------------------------------------------------------
(* One call of preprocess_video.                                           *)

\* a capture that opens or not, its frame rate, and the frames it delivers
InitSampler ==
    /\ metadata = <<>>
    /\ fp_files = <<>>
    /\ meta_file = [state |-> "absent", recs |-> <<>>]
    /\ up = [t \in Uploads |-> NewUpload]
    /\ srch = IdleSearch
    /\ evaluated = <<>>
    /\ alive = TRUE
    /\ observed = <<"fresh">>
    /\ removed = {}
    /\ \E opened \in BOOLEAN, original_fps \in SourceFps, readable \in 0..MaxSrcFrames :
          smp = [NoSampler EXCEPT !.pc = "call", !.opened = opened,
                                  !.original_fps = original_fps,
                                  !.readable = readable]

NextSampler == PreprocessOpen \/ CapRead \/ CapGrab

SpecSampler == InitSampler /\ [][NextSampler]_vars

\* the call is one thread's straight-line code: it keeps running
SpecSamplerFair == SpecSampler /\ WF_vars(NextSampler)

-----------------------------------------------------------------------------
(* Removing a video from the store.                                        *)

\* db.remove(file_id), for an id of the catalogue: VideoDatabase defines
\* __init__, add_video, search and _save_metadata and nothing else, so the
\* attribute lookup raises AttributeError before anything is touched
RemoveCall(file_id) ==
    /\ alive
    /\ \E k \in 1..Len(metadata) : metadata[k].id = file_id
    /\ removed' = removed \cup {file_id}
    /\ UNCHANGED <<metadata, fp_files, meta_file, up, srch, evaluated, alive,
                   observed, smp>>

NextRemove ==
    \/ UploadNext
    \/ \E file_id \in Uploads : RemoveCall(file_id)

SpecRemove == Init /\ [][NextRemove]_vars

\* A search running among the uploads of a live server.
NextConcurrent ==
    \/ UploadNext
    \/ \E q \in Queries, th \in Thresholds : SearchStart(q, th)
    \/ SearchNextVideo
    \/ SearchIterError
    \/ SearchWindow

SpecConcurrent == Init /\ [][NextConcurrent]_vars

-----------------------------------------------------------------------------
(* What the search claims speak of: the catalogue's windows for the query  *)
(* in hand, found without running the scan.                                *)

Stored(j) == fp_files[metadata[j].id].data

\* <<j, i>>: the window at 0-based offset i of the j-th video in iteration order
Windows ==
    {w \in (1..Len(metadata)) \X (0..MaxFrames) :
        w[2] + Len(srch.query) <= Len(Stored(w[1]))}

ScoreOf(w) == WindowScore(Stored(w[1]), w[2], srch.query)

\* every window with its score: pairs <<w, score>>
ScoreTable == {<<w, ScoreOf(w)>> : w \in Windows}

OwnWindow(w) == \A k \in 1..Len(srch.query) : Stored(w[1])[w[2] + k] = srch.query[k]

Before(v, w) == v[1] < w[1] \/ (v[1] = w[1] /\ v[2] < w[2])

\* the windows scoring below 0.01
NearPerfectIn(tbl) == {x \in tbl : x[2][1] * 100 < x[2][2]}

NearPerfect == {x[1] : x \in NearPerfectIn(ScoreTable)}

\* the first of them in scan order
FirstIn(tbl) == CHOOSE x \in tbl : \A y \in tbl : ~Before(y[1], x[1])

\* the lowest score
LowestIn(tbl) == (CHOOSE x \in tbl : \A y \in tbl : ~Less(y[2], x[2]))[2]

Scanned == {<<evaluated[p].pos, evaluated[p].offset>> : p \in 1..Len(evaluated)}

Returned == srch.pc = "done"

\* C1: with one video in the catalogue and a query whose lowest window score
\* equals the threshold, search returns None; whatever the catalogue, a match
\* is returned only when the lowest window score is strictly below the threshold.
C1_ThresholdBoundary ==
    Returned =>
        \A tbl \in {ScoreTable} : \A best \in {IF tbl = {} THEN Inf ELSE LowestIn(tbl)} :
            /\ (Len(metadata) = 1 /\ tbl # {} /\ SameValue(best, srch.threshold))
                   => srch.result = <<>>
            /\ srch.result # <<>> =>
                   /\ tbl # {}
                   /\ best[1] * srch.threshold[2] < srch.threshold[1] * best[2]
                   /\ srch.result[1].score[1] * srch.threshold[2]
                          < srch.threshold[1] * srch.result[1].score[2]

C1_Witness ==
    /\ Returned
    /\ Len(metadata) = 1
    /\ Windows # {}
    /\ evaluated # <<>>
    /\ srch.threshold = DefaultThreshold
    /\ SameValue(LowestIn(ScoreTable), srch.threshold)
    /\ srch.result = <<>>

\* C2 as claimed: a query that is the window [i, i+K) of a stored sequence
\* is matched with score 0 at start offset i / 10, for every such i (default
\* threshold).
C2_SelfMatchOwnOffset ==
    (Returned /\ srch.threshold = DefaultThreshold) =>
        \A w \in Windows : OwnWindow(w) =>
            /\ srch.result # <<>>
            /\ srch.result[1].score[1] = 0
            /\ srch.result[1].start_time[1] * 10 = w[2] * srch.result[1].start_time[2]

\* C2 as amended: with a threshold of at least 0.01, a query that is a window
\* of a stored sequence is matched at the first window in scan order that
\* scores below 0.01 against it; that is the query's own window, at offset
\* i / 10 with score 0, when no earlier window scores below 0.01.
C2_SelfMatchFirstNearPerfect ==
    (Returned /\ ~Less(srch.threshold, CutOff)) =>
        LET own == {w \in Windows : OwnWindow(w)}
        IN  own # {} =>
              \A first \in {FirstIn(NearPerfectIn(ScoreTable))} :
              LET f == first[1]
                  m == srch.result[1]
              IN  /\ srch.result # <<>>
                  /\ m.video = metadata[f[1]].name
                  /\ m.start_time[1] * 10 = f[2] * m.start_time[2]
                  /\ m.score = first[2]
                  /\ m.score[1] * 100 < m.score[2]
                  /\ \A w \in own :
                        /\ ~Before(w, f)
                        /\ w = f => m.score[1] = 0

C2_Witness ==
    /\ Returned
    /\ srch.threshold = DefaultThreshold
    /\ \E w \in Windows :
          /\ OwnWindow(w)
          /\ w[1] = 2 /\ w[2] = 1
          /\ \E v \in Windows : Before(v, w)
          /\ \A v \in NearPerfect : ~Before(v, w)
          /\ srch.result # <<>>
          /\ srch.result[1].start_time = <<1, 10>>
          /\ srch.result[1].video = metadata[2].name

\* C3: when no window of the catalogue scores below 0.01, a search that has
\* returned has scored every offset 0..length-K of every video of length >= K,
\* each once, and no other window.
C3_ScanComplete ==
    (Returned /\ NearPerfectIn(ScoreTable) = {}) =>
        /\ Scanned = Windows
        /\ Len(evaluated) = Cardinality(Windows)
        /\ \A p \in 1..Len(evaluated) :
               Len(Stored(evaluated[p].pos)) >= Len(srch.query)

C3_Witness ==
    /\ Returned
    /\ NearPerfect = {}
    /\ Len(metadata) = 2
    /\ Len(Stored(1)) < Len(srch.query)
    /\ Len(Stored(2)) > Len(srch.query)
    /\ Len(evaluated) = Cardinality(Windows)
    /\ Len(evaluated) >= 2

\* C4: a window scored below 0.01 is the last window the search scores.
C4_EarlyExit ==
    \A p \in 1..Len(evaluated) :
        evaluated[p].score[1] * 100 < evaluated[p].score[2] => p = Len(evaluated)

C4_Witness ==
    /\ Returned
    /\ Len(evaluated) >= 2
    /\ evaluated[Len(evaluated)].score[1] * 100 < evaluated[Len(evaluated)].score[2]
    /\ evaluated[Len(evaluated)].pos < Len(metadata)
    /\ \E w \in Windows : w[1] = evaluated[Len(evaluated)].pos /\ w \notin Scanned
    /\ \E w \in Windows : w[1] > evaluated[Len(evaluated)].pos

\* C5: when the scan is over, the candidate is the lowest-scoring window among
\* those scored, the first of them in scan order when several share that score,
\* and its video, start_time = offset / 10 and score are that window's.
C5_BestFirst ==
    Returned =>
        IF evaluated = <<>>
        THEN srch.best_match = <<>>
        ELSE \A p \in {CHOOSE x \in 1..Len(evaluated) :
                          /\ \A y \in 1..Len(evaluated) :
                                 ~Less(evaluated[y].score, evaluated[x].score)
                          /\ \A y \in 1..(x - 1) :
                                 Less(evaluated[x].score, evaluated[y].score)} :
             LET e == evaluated[p]
             IN  /\ srch.best_match # <<>>
                 /\ srch.best_match[1].video = metadata[e.pos].name
                 /\ srch.best_match[1].start_time[1] * 10
                        = e.offset * srch.best_match[1].start_time[2]
                 /\ srch.best_match[1].score = ScoreOf(<<e.pos, e.offset>>)

C5_Witness ==
    /\ Returned
    /\ \E p, q \in 1..Len(evaluated) :
          /\ p < q
          /\ evaluated[p].pos # evaluated[q].pos
          /\ SameValue(evaluated[p].score, evaluated[q].score)
          /\ \A y \in 1..Len(evaluated) : ~Less(evaluated[y].score, evaluated[p].score)
          /\ \A y \in 1..(p - 1) : Less(evaluated[p].score, evaluated[y].score)
          /\ evaluated[p].offset = 1
          /\ srch.best_match[1].video = metadata[evaluated[p].pos].name
          /\ srch.best_match[1].start_time = <<1, 10>>

-----------------------------------------------------------------------------
(* What the ingest claims speak of.                                        *)

\* the uploads the sampler gives nothing for: None, or no frame at all
NothingSampled(video_path) ==
    \/ PreprocessVideo(video_path) = <<>>
    \/ PreprocessVideo(video_path) = << <<>> >>

HasRecord(recs, file_id) == \E k \in 1..Len(recs) : recs[k].id = file_id

\* C6: an add_video call whose sampling gives None or no frame changes neither
\* the in-memory catalogue nor metadata.json, writes no fingerprint file and
\* leaves no record under its id.
C6_RejectedIngestChangesNothing ==
    /\ [](\A t \in Uploads :
            (up[t].pc # "new" /\ NothingSampled(up[t].path)) =>
                /\ ~HasRecord(metadata, Uuid4(t))
                /\ ~HasRecord(meta_file.recs, Uuid4(t))
                /\ Uuid4(t) \notin DOMAIN fp_files)
    /\ [][\A t \in Uploads :
            (up'[t] # up[t] /\ alive' /\ NothingSampled(up'[t].path)) =>
                /\ metadata' = metadata
                /\ meta_file' = meta_file
                /\ fp_files' = fp_files
                /\ ~up'[t].added]_vars

C6_Witness ==
    /\ up[1].pc = "responded" /\ up[1].path = "empty.mp4"
    /\ up[2].pc = "responded" /\ up[2].path = "missing.mp4"
    /\ metadata = <<>>
    /\ meta_file.state = "absent"
    /\ DOMAIN fp_files = {}

\* C7: the upload handler reports success only for a call that added a video.
C7_FailurePropagates ==
    \A t \in Uploads :
        (up[t].response # <<>> /\ up[t].response[1].success) => up[t].added

\* C8: every record of the in-memory catalogue and of metadata.json has its
\* fingerprint file, complete, holding as many fingerprints as the record's
\* frame count, and no id has two records.
C8_RecordsHaveFiles ==
    \A recs \in {metadata, meta_file.recs} :
        \A k \in 1..Len(recs) :
            /\ recs[k].id \in DOMAIN fp_files
            /\ fp_files[recs[k].id].state = "complete"
            /\ recs[k].frames = Len(fp_files[recs[k].id].data)
            /\ \A m \in 1..Len(recs) : recs[m].id = recs[k].id => m = k

\* a crash after np.save and before the record: the restarted store holds the
\* other video, and the file is an orphan
C8_Witness ==
    /\ alive
    /\ observed = <<"loaded">>
    /\ Len(metadata) = 1
    /\ \E t \in Uploads :
          /\ up[t].pc = "killed"
          /\ Uuid4(t) \in DOMAIN fp_files
          /\ fp_files[Uuid4(t)].state = "complete"
          /\ ~HasRecord(metadata, Uuid4(t))
          /\ ~HasRecord(meta_file.recs, Uuid4(t))

\* C9: no two ingests hold metadata.json open for writing at once, and no
\* reader finds it partially written.
C9_AtomicPersistence ==
    /\ Cardinality({t \in Uploads : up[t].pc = "dump"}) <= 1
    /\ observed # <<"corrupt">>

\* C10: a search running among ingests ends normally, and every record it
\* comes to has a readable fingerprint file.
C10_SearchAmongIngests ==
    /\ srch.pc # "error"
    /\ \A k \in 1..Len(metadata) : Readable(metadata[k].id)

-----------------------------------------------------------------------------
(* C13: what a successful ingest changes.                                  *)

\* the step of upload t from one place of add_video to the next
Moves(t, from, to) == up[t].pc = from /\ up'[t].pc = to

\* C13: a successful ingest only appends. Its insert adds exactly one record,
\* at the end, under an id no record had, for the path and the frames of this
\* call and with duration_sec = frames / 10, also when the path is already in
\* the catalogue; no step of an ingest changes a record or a complete
\* fingerprint file that was there; and when its save ends and add_video
\* returns, metadata.json holds exactly the in-memory catalogue.
C13_IngestAppendsOnly ==
    [][\A t \in Uploads :
         /\ Moves(t, "update", "persist") =>
                /\ Len(metadata') = Len(metadata) + 1
                /\ \E r \in {metadata'[Len(metadata')]} :
                      /\ \A k \in 1..Len(metadata) : metadata[k].id # r.id
                      /\ r.original_path = up[t].path
                      /\ r.frames = Len(up[t].fps)
                      /\ r.frames > 0
                      /\ r.duration_sec[1] * 10 = r.frames * r.duration_sec[2]
         /\ Moves(t, "dump", "returned") =>
                /\ meta_file'.state = "complete"
                /\ meta_file'.recs = metadata'
                /\ \E k \in 1..Len(metadata') : metadata'[k].id = Uuid4(t)
         /\ (up[t].pc # up'[t].pc /\ up'[t].pc # "killed") =>
                /\ Len(metadata') >= Len(metadata)
                /\ \A k \in 1..Len(metadata) : metadata'[k] = metadata[k]
                /\ \A file_id \in DOMAIN fp_files :
                      fp_files[file_id].state = "complete" =>
                          /\ file_id \in DOMAIN fp_files'
                          /\ fp_files'[file_id] = fp_files[file_id]
      ]_vars

\* the same path ingested twice: two records under two ids, both saved
C13_Witness ==
    /\ alive
    /\ \A t \in Uploads : up[t].pc = "returned" /\ up[t].added
    /\ Len(metadata) = 2
    /\ metadata[1].original_path = metadata[2].original_path
    /\ metadata[1].id # metadata[2].id
    /\ meta_file = [state |-> "complete", recs |-> metadata]

-----------------------------------------------------------------------------
(* C11: a record whose fingerprint file cannot be read.                    *)

\* C11: when a record's fingerprint file is missing or unreadable, search
\* skips the record and goes on with the rest; it never aborts: no search
\* ends in an exception.
C11_SkipsUnreadable == srch.pc # "error"

-----------------------------------------------------------------------------
(* C12: removal.                                                           *)

\* C12: the store offers remove(id); once remove(id) has been called, the
\* catalogue never contains id again, in memory or in metadata.json (the
\* record goes before the file, so a crash leaves at worst an orphan file).
C12_RemovedStaysRemoved ==
    \A file_id \in removed :
        /\ \A k \in 1..Len(metadata) : metadata[k].id # file_id
        /\ \A k \in 1..Len(meta_file.recs) : meta_file.recs[k].id # file_id

-----------------------------------------------------------------------------
(* C14, C15: the sampling loop of preprocess_video.                        *)

\* the least integer not below a / b, for a >= 0 and b > 0
Ceil(a, b) == (a + b - 1) \div b

\* C14: whatever the source frame rate, below, at or above target_fps, a
\* source of N frames gives ceil(N * target_fps / source_fps) frames, and the
\* k-th of them (from 0) is the source frame of index
\* ceil(k * source_fps / target_fps).
C14_UniformSampling ==
    (smp.pc = "done" /\ smp.opened) =>
        \E out \in {smp.result[1]} :
            /\ Len(out) = Ceil(smp.readable * TargetFps, smp.original_fps)
            /\ \A k \in 0..(Len(out) - 1) :
                  out[k + 1] = Ceil(k * smp.original_fps, TargetFps)

\* what a call that has returned must have returned
EndOfStream ==
    smp.pc = "done" =>
        IF ~smp.opened
        THEN \* the capture did not open: None
             smp.result = <<>>
        ELSE /\ smp.result # <<>>
             \* the failed read or grab was the first one: every frame the
             \* capture could deliver was read or grabbed before it
             /\ smp.position = smp.readable
             /\ smp.current_src_frame = smp.readable
             /\ \E out \in {smp.result[1]} :
                   /\ (smp.readable = 0) = (Len(out) = 0)
                   /\ Len(out) = smp.target_frame_count
                   /\ \A k \in 1..Len(out) : out[k] \in 0..(smp.readable - 1)
                   /\ \A k \in 1..(Len(out) - 1) : out[k] < out[k + 1]

\* C15: for a finite source the loop always ends, at the first read or grab
\* that fails and not before; a capture that does not open gives None, a
\* first read that fails gives an empty sequence, and a failure after at
\* least one frame gives the frames collected so far, in source order.
C15_EndsAtFirstFailure ==
    /\ <>(smp.pc = "done")
    /\ [](smp.pc = "loop" => smp.position <= smp.readable)
    /\ []EndOfStream

\* a 25 fps source that fails at its sixth frame: frames 0 and 3, then the
\* read of frame 5 fails
C15_Witness ==
    /\ smp.pc = "done"
    /\ smp.original_fps = 25
    /\ smp.readable = 5
    /\ smp.result = << <<0, 3>> >>

====
